---- MODULE Spec2Model ----
(***************************************************************************)
(* The Contract tab of the Stars page (src/unnamed/part_000, ContractTab): *)
(* the cutpoint classifier calcStarFromPerformance, the band describer     *)
(* getBandRange / isOutsideBand, the simulated weighted average            *)
(* calcSimulatedWeightedAvg and the component state they read              *)
(* (selectedContract, simValues, the two query results).                   *)
(*                                                                         *)
(* Numbers.  Performance values and thresholds are JavaScript numbers that *)
(* the classifier only compares; they are modelled as integers.  Weighted  *)
(* averages are modelled exactly, as an integer count of hundredths, so    *)
(* that Math.round(x * 100) / 100 is the integer MathRound(100 * x).       *)
(*                                                                         *)
(* null / undefined.  A nullable field holds Null (the empty tuple) or     *)
(* <<v>>; a key that is absent from a Record is absent from the DOMAIN of  *)
(* the function that models it.                                            *)
(***************************************************************************)
EXTENDS Integers, Sequences, FiniteSets, TLC

VARIABLES
    selectedContract,      \* useState<string>("H5216")
    showContractDropdown,  \* useState(false)
    contractSearch,        \* useState("")
    simValues,             \* useState<Record<string, number | null>>({})
    contractList,          \* data of useQuery(["contract-list"])
    contractData,          \* data of useQuery(["contract-performance", selectedContract])
    args,                  \* arguments of the engine call under examination
    ret                    \* the function called on args and what it returned; under
                           \* Spec, what the last render showed

vars == <<selectedContract, showContractDropdown, contractSearch, simValues,
          contractList, contractData, args, ret>>

uiVars == <<selectedContract, showContractDropdown, contractSearch, simValues,
            contractList, contractData>>

engineVars == <<args, ret>>

-----------------------------------------------------------------------------
(* Bounds and value domains *)

\* largest performance value / threshold drawn
MaxVal == 3

\* values include one negative (out-of-range) percentage
Values == (-1)..MaxVal

Null == <<>>

Some(x) == <<x>>

\* values passed to the engine functions: also one below and one above every
\* threshold
ArgValues == (-2)..(MaxVal + 1)

\* number | null
NullableValues == {Null} \cup {Some(v) : v \in Values}

\* interface ContractCutpoints
ContractCutpoints == [cut_2 : NullableValues, cut_3 : NullableValues,
                      cut_4 : NullableValues, cut_5 : NullableValues]

\* ContractCutpoints | null
NullableCutpoints == {Null} \cup {Some(c) : c \in ContractCutpoints}

\* star ratings an assigned rating can take
StarRatings == 1..5

-----------------------------------------------------------------------------
(* calcStarFromPerformance *)

\* the <= branch written into the higher-is-better chain at the 4-star line
calcStarFromPerformance_flip4(value, cutpoints, lowerIsBetter) ==
    IF cutpoints = Null THEN 3
    ELSE LET c == cutpoints[1] IN
         IF lowerIsBetter
         THEN IF c.cut_5 # Null /\ value <= c.cut_5[1] THEN 5
              ELSE IF c.cut_4 # Null /\ value >= c.cut_4[1] THEN 4
              ELSE IF c.cut_3 # Null /\ value <= c.cut_3[1] THEN 3
              ELSE IF c.cut_2 # Null /\ value <= c.cut_2[1] THEN 2
              ELSE 1
         ELSE IF c.cut_5 # Null /\ value >= c.cut_5[1] THEN 5
              ELSE IF c.cut_4 # Null /\ value <= c.cut_4[1] THEN 4
              ELSE IF c.cut_3 # Null /\ value >= c.cut_3[1] THEN 3
              ELSE IF c.cut_2 # Null /\ value >= c.cut_2[1] THEN 2
              ELSE 1

\* strict comparisons: a value on a threshold falls to the tier below
calcStarFromPerformance_strict(value, cutpoints, lowerIsBetter) ==
    IF cutpoints = Null THEN 3
    ELSE LET c == cutpoints[1] IN
         IF lowerIsBetter
         THEN IF c.cut_5 # Null /\ value < c.cut_5[1] THEN 5
              ELSE IF c.cut_4 # Null /\ value < c.cut_4[1] THEN 4
              ELSE IF c.cut_3 # Null /\ value < c.cut_3[1] THEN 3
              ELSE IF c.cut_2 # Null /\ value < c.cut_2[1] THEN 2
              ELSE 1
         ELSE IF c.cut_5 # Null /\ value > c.cut_5[1] THEN 5
              ELSE IF c.cut_4 # Null /\ value > c.cut_4[1] THEN 4
              ELSE IF c.cut_3 # Null /\ value > c.cut_3[1] THEN 3
              ELSE IF c.cut_2 # Null /\ value > c.cut_2[1] THEN 2
              ELSE 1

\* the direction flag ignored: every measure classified as higher-is-better
calcStarFromPerformance_nodir(value, cutpoints, lowerIsBetter) ==
    IF cutpoints = Null THEN 3
    ELSE LET c == cutpoints[1] IN
         IF c.cut_5 # Null /\ value >= c.cut_5[1] THEN 5
         ELSE IF c.cut_4 # Null /\ value >= c.cut_4[1] THEN 4
         ELSE IF c.cut_3 # Null /\ value >= c.cut_3[1] THEN 3
         ELSE IF c.cut_2 # Null /\ value >= c.cut_2[1] THEN 2
         ELSE 1

\* the higher-is-better chain evaluated bottom-up
calcStarFromPerformance_bottomup(value, cutpoints, lowerIsBetter) ==
    IF cutpoints = Null THEN 3
    ELSE LET c == cutpoints[1] IN
         IF lowerIsBetter
         THEN IF c.cut_5 # Null /\ value <= c.cut_5[1] THEN 5
              ELSE IF c.cut_4 # Null /\ value <= c.cut_4[1] THEN 4
              ELSE IF c.cut_3 # Null /\ value <= c.cut_3[1] THEN 3
              ELSE IF c.cut_2 # Null /\ value <= c.cut_2[1] THEN 2
              ELSE 1
         ELSE IF c.cut_2 # Null /\ value < c.cut_2[1] THEN 1
              ELSE IF c.cut_3 # Null /\ value < c.cut_3[1] THEN 2
              ELSE IF c.cut_4 # Null /\ value < c.cut_4[1] THEN 3
              ELSE IF c.cut_5 # Null /\ value < c.cut_5[1] THEN 4
              ELSE 5

\* absent cutpoints fall through the chain to 1 instead of the default
calcStarFromPerformance_nodefault(value, cutpoints, lowerIsBetter) ==
    IF cutpoints = Null THEN 1
    ELSE LET c == cutpoints[1] IN
         IF lowerIsBetter
         THEN IF c.cut_5 # Null /\ value <= c.cut_5[1] THEN 5
              ELSE IF c.cut_4 # Null /\ value <= c.cut_4[1] THEN 4
              ELSE IF c.cut_3 # Null /\ value <= c.cut_3[1] THEN 3
              ELSE IF c.cut_2 # Null /\ value <= c.cut_2[1] THEN 2
              ELSE 1
         ELSE IF c.cut_5 # Null /\ value >= c.cut_5[1] THEN 5
              ELSE IF c.cut_4 # Null /\ value >= c.cut_4[1] THEN 4
              ELSE IF c.cut_3 # Null /\ value >= c.cut_3[1] THEN 3
              ELSE IF c.cut_2 # Null /\ value >= c.cut_2[1] THEN 2
              ELSE 1

\* the null checks dropped: a comparison with null compares with 0
calcStarFromPerformance_nullzero(value, cutpoints, lowerIsBetter) ==
    IF cutpoints = Null THEN 3
    ELSE LET c == cutpoints[1]
             N(x) == IF x = Null THEN 0 ELSE x[1]
         IN
         IF lowerIsBetter
         THEN IF value <= N(c.cut_5) THEN 5
              ELSE IF value <= N(c.cut_4) THEN 4
              ELSE IF value <= N(c.cut_3) THEN 3
              ELSE IF value <= N(c.cut_2) THEN 2
              ELSE 1
         ELSE IF value >= N(c.cut_5) THEN 5
              ELSE IF value >= N(c.cut_4) THEN 4
              ELSE IF value >= N(c.cut_3) THEN 3
              ELSE IF value >= N(c.cut_2) THEN 2
              ELSE 1

\* a value that reaches no threshold is rated 0
calcStarFromPerformance_zero(value, cutpoints, lowerIsBetter) ==
    IF cutpoints = Null THEN 3
    ELSE LET c == cutpoints[1] IN
         IF lowerIsBetter
         THEN IF c.cut_5 # Null /\ value <= c.cut_5[1] THEN 5
              ELSE IF c.cut_4 # Null /\ value <= c.cut_4[1] THEN 4
              ELSE IF c.cut_3 # Null /\ value <= c.cut_3[1] THEN 3
              ELSE IF c.cut_2 # Null /\ value <= c.cut_2[1] THEN 2
              ELSE 0
         ELSE IF c.cut_5 # Null /\ value >= c.cut_5[1] THEN 5
              ELSE IF c.cut_4 # Null /\ value >= c.cut_4[1] THEN 4
              ELSE IF c.cut_3 # Null /\ value >= c.cut_3[1] THEN 3
              ELSE IF c.cut_2 # Null /\ value >= c.cut_2[1] THEN 2
              ELSE 0

\* a cutpoint set without any threshold is treated like an absent one
calcStarFromPerformance_emptydefault(value, cutpoints, lowerIsBetter) ==
    IF cutpoints = Null THEN 3
    ELSE LET c == cutpoints[1] IN
         IF c.cut_2 = Null /\ c.cut_3 = Null /\ c.cut_4 = Null /\ c.cut_5 = Null THEN 3
         ELSE IF lowerIsBetter
         THEN IF c.cut_5 # Null /\ value <= c.cut_5[1] THEN 5
              ELSE IF c.cut_4 # Null /\ value <= c.cut_4[1] THEN 4
              ELSE IF c.cut_3 # Null /\ value <= c.cut_3[1] THEN 3
              ELSE IF c.cut_2 # Null /\ value <= c.cut_2[1] THEN 2
              ELSE 1
         ELSE IF c.cut_5 # Null /\ value >= c.cut_5[1] THEN 5
              ELSE IF c.cut_4 # Null /\ value >= c.cut_4[1] THEN 4
              ELSE IF c.cut_3 # Null /\ value >= c.cut_3[1] THEN 3
              ELSE IF c.cut_2 # Null /\ value >= c.cut_2[1] THEN 2
              ELSE 1

calcStarFromPerformance(value, cutpoints, lowerIsBetter) ==
    IF cutpoints = Null THEN 3
    ELSE LET c == cutpoints[1] IN
         IF lowerIsBetter
         THEN IF c.cut_5 # Null /\ value <= c.cut_5[1] THEN 5
              ELSE IF c.cut_4 # Null /\ value <= c.cut_4[1] THEN 4
              ELSE IF c.cut_3 # Null /\ value <= c.cut_3[1] THEN 3
              ELSE IF c.cut_2 # Null /\ value <= c.cut_2[1] THEN 2
              ELSE 1
         ELSE IF c.cut_5 # Null /\ value >= c.cut_5[1] THEN 5
              ELSE IF c.cut_4 # Null /\ value >= c.cut_4[1] THEN 4
              ELSE IF c.cut_3 # Null /\ value >= c.cut_3[1] THEN 3
              ELSE IF c.cut_2 # Null /\ value >= c.cut_2[1] THEN 2
              ELSE 1

-----------------------------------------------------------------------------
(* getBandRange, isOutsideBand *)

\* one decimal digit as a character
Digit(d) == CASE d = 0 -> "0" [] d = 1 -> "1" [] d = 2 -> "2" [] d = 3 -> "3"
              [] d = 4 -> "4" [] d = 5 -> "5" [] d = 6 -> "6" [] d = 7 -> "7"
              [] d = 8 -> "8" [] d = 9 -> "9"

RECURSIVE Digits(_)
Digits(n) == IF n < 10 THEN <<Digit(n)>> ELSE Digits(n \div 10) \o <<Digit(n % 10)>>

\* `${n}` of a template literal, for an integer n: a string is the sequence of
\* its characters
NumberToString(n) == IF n < 0 THEN <<"-">> \o Digits(0 - n) ELSE Digits(n)

\* the characters U+2265 and U+2264 are written ">=" and "<="
GE == ">="

LE == "<="

TO == <<" ", "t", "o", " ">>

\* the early return on absent cutpoints dropped
isOutsideBand_nullcheck(value, starRating, cutpoints, lowerIsBetter) ==
    calcStarFromPerformance(value, cutpoints, lowerIsBetter) # starRating

isOutsideBand(value, starRating, cutpoints, lowerIsBetter) ==
    IF cutpoints = Null THEN FALSE
    ELSE LET expectedStar == calcStarFromPerformance(value, cutpoints, lowerIsBetter)
         IN  expectedStar # starRating

\* the inclusive bound of every band rendered as a strict one
getBandRange_halfopen(starRating, cutpoints, lowerIsBetter) ==
    IF cutpoints = Null THEN <<>>
    ELSE LET c == cutpoints[1]
             S(x) == NumberToString(x[1])
             incl == IF lowerIsBetter THEN "<" ELSE ">"
             excl == IF lowerIsBetter THEN ">" ELSE "<"
             One(op, x) == IF x # Null THEN <<op>> \o S(x) \o <<"%">> ELSE <<>>
             Two(x, y) == IF x # Null /\ y # Null
                          THEN IF lowerIsBetter
                               THEN <<excl>> \o S(y) \o <<"%">> \o TO \o <<incl>> \o S(x) \o <<"%">>
                               ELSE <<incl>> \o S(x) \o <<"%">> \o TO \o <<excl>> \o S(y) \o <<"%">>
                          ELSE <<>>
         IN  IF starRating = 5 THEN One(incl, c.cut_5)
             ELSE IF starRating = 4 THEN Two(c.cut_4, c.cut_5)
             ELSE IF starRating = 3 THEN Two(c.cut_3, c.cut_4)
             ELSE IF starRating = 2 THEN Two(c.cut_2, c.cut_3)
             ELSE One(excl, c.cut_2)

\* the two thresholds of a two-sided band rendered in the opposite order
getBandRange_swapped(starRating, cutpoints, lowerIsBetter) ==
    IF cutpoints = Null THEN <<>>
    ELSE LET c == cutpoints[1]
             S(x) == NumberToString(x[1])
             incl == IF lowerIsBetter THEN LE ELSE GE
             excl == IF lowerIsBetter THEN ">" ELSE "<"
             One(op, x) == IF x # Null THEN <<op>> \o S(x) \o <<"%">> ELSE <<>>
             Two(x, y) == IF x # Null /\ y # Null
                          THEN IF lowerIsBetter
                               THEN <<excl>> \o S(x) \o <<"%">> \o TO \o <<incl>> \o S(y) \o <<"%">>
                               ELSE <<incl>> \o S(y) \o <<"%">> \o TO \o <<excl>> \o S(x) \o <<"%">>
                          ELSE <<>>
         IN  IF starRating = 5 THEN One(incl, c.cut_5)
             ELSE IF starRating = 4 THEN Two(c.cut_4, c.cut_5)
             ELSE IF starRating = 3 THEN Two(c.cut_3, c.cut_4)
             ELSE IF starRating = 2 THEN Two(c.cut_2, c.cut_3)
             ELSE One(excl, c.cut_2)

\* a two-sided band whose upper threshold is null is rendered one-sided
getBandRange_onesided(starRating, cutpoints, lowerIsBetter) ==
    IF cutpoints = Null THEN <<>>
    ELSE LET c == cutpoints[1]
             S(x) == NumberToString(x[1])
             incl == IF lowerIsBetter THEN LE ELSE GE
             excl == IF lowerIsBetter THEN ">" ELSE "<"
             One(op, x) == IF x # Null THEN <<op>> \o S(x) \o <<"%">> ELSE <<>>
             Two(x, y) == IF x # Null /\ y # Null
                          THEN IF lowerIsBetter
                               THEN <<excl>> \o S(y) \o <<"%">> \o TO \o <<incl>> \o S(x) \o <<"%">>
                               ELSE <<incl>> \o S(x) \o <<"%">> \o TO \o <<excl>> \o S(y) \o <<"%">>
                          ELSE IF y = Null THEN One(incl, x) ELSE <<>>
         IN  IF starRating = 5 THEN One(incl, c.cut_5)
             ELSE IF starRating = 4 THEN Two(c.cut_4, c.cut_5)
             ELSE IF starRating = 3 THEN Two(c.cut_3, c.cut_4)
             ELSE IF starRating = 2 THEN Two(c.cut_2, c.cut_3)
             ELSE One(excl, c.cut_2)

getBandRange(starRating, cutpoints, lowerIsBetter) ==
    IF cutpoints = Null THEN <<>>
    ELSE LET c == cutpoints[1]
             S(x) == NumberToString(x[1])
         IN
         IF lowerIsBetter
         THEN IF starRating = 5
              THEN IF c.cut_5 # Null THEN <<LE>> \o S(c.cut_5) \o <<"%">> ELSE <<>>
              ELSE IF starRating = 4
              THEN IF c.cut_5 # Null /\ c.cut_4 # Null
                   THEN <<">">> \o S(c.cut_5) \o <<"%">> \o TO \o <<LE>> \o S(c.cut_4) \o <<"%">>
                   ELSE <<>>
              ELSE IF starRating = 3
              THEN IF c.cut_4 # Null /\ c.cut_3 # Null
                   THEN <<">">> \o S(c.cut_4) \o <<"%">> \o TO \o <<LE>> \o S(c.cut_3) \o <<"%">>
                   ELSE <<>>
              ELSE IF starRating = 2
              THEN IF c.cut_3 # Null /\ c.cut_2 # Null
                   THEN <<">">> \o S(c.cut_3) \o <<"%">> \o TO \o <<LE>> \o S(c.cut_2) \o <<"%">>
                   ELSE <<>>
              ELSE IF c.cut_2 # Null THEN <<">">> \o S(c.cut_2) \o <<"%">> ELSE <<>>
         ELSE IF starRating = 5
              THEN IF c.cut_5 # Null THEN <<GE>> \o S(c.cut_5) \o <<"%">> ELSE <<>>
              ELSE IF starRating = 4
              THEN IF c.cut_4 # Null /\ c.cut_5 # Null
                   THEN <<GE>> \o S(c.cut_4) \o <<"%">> \o TO \o <<"<">> \o S(c.cut_5) \o <<"%">>
                   ELSE <<>>
              ELSE IF starRating = 3
              THEN IF c.cut_3 # Null /\ c.cut_4 # Null
                   THEN <<GE>> \o S(c.cut_3) \o <<"%">> \o TO \o <<"<">> \o S(c.cut_4) \o <<"%">>
                   ELSE <<>>
              ELSE IF starRating = 2
              THEN IF c.cut_2 # Null /\ c.cut_3 # Null
                   THEN <<GE>> \o S(c.cut_2) \o <<"%">> \o TO \o <<"<">> \o S(c.cut_3) \o <<"%">>
                   ELSE <<>>
              ELSE IF c.cut_2 # Null THEN <<"<">> \o S(c.cut_2) \o <<"%">> ELSE <<>>

-----------------------------------------------------------------------------
(* The engine functions called on arbitrary arguments *)

NoCall == [fn |-> "none", starRating |-> 0, out |-> <<>>]

EngineInit ==
    /\ args \in [value : ArgValues, cutpoints : NullableCutpoints, lowerIsBetter : BOOLEAN]
    /\ ret = NoCall

CallCalcStarFromPerformance ==
    /\ ret.fn = "none"
    /\ ret' = [fn |-> "calcStarFromPerformance", starRating |-> 0,
               out |-> <<calcStarFromPerformance(args.value, args.cutpoints, args.lowerIsBetter)>>]
    /\ UNCHANGED args

CallIsOutsideBand ==
    /\ ret.fn = "none"
    /\ \E starRating \in StarRatings :
         ret' = [fn |-> "isOutsideBand", starRating |-> starRating,
                 out |-> <<isOutsideBand(args.value, starRating, args.cutpoints, args.lowerIsBetter)>>]
    /\ UNCHANGED args

\* starRating is a number: 0 stands for every rating outside 1..5
CallGetBandRange ==
    /\ ret.fn = "none"
    /\ \E starRating \in {0} \cup StarRatings :
         ret' = [fn |-> "getBandRange", starRating |-> starRating,
                 out |-> getBandRange(starRating, args.cutpoints, args.lowerIsBetter)]
    /\ UNCHANGED args

-----------------------------------------------------------------------------
(* The two query results the component reads *)

\* a string the component inspects (contract ids, the search text) is the
\* sequence of its characters
H5216 == <<"H", "5", "2", "1", "6">>

H1234 == <<"H", "1", "2", "3", "4">>

H9999 == <<"H", "9", "9", "9", "9">>

S5601 == <<"S", "5", "6", "0", "1">>

\* texts typed into the contract search box
SearchTexts == {<<>>, <<"h", "1">>, <<"A", "C">>}

MeasureKeys == {"C01", "C02", "D01"}

\* higher-is-better thresholds in the order cut_2 <= cut_3 <= cut_4 <= cut_5
HiCuts == Some([cut_2 |-> Some(0), cut_3 |-> Some(1), cut_4 |-> Some(2), cut_5 |-> Some(3)])

\* lower-is-better thresholds in the order cut_2 >= cut_3 >= cut_4 >= cut_5
LoCuts == Some([cut_2 |-> Some(2), cut_3 |-> Some(1), cut_4 |-> Some(0), cut_5 |-> Some(-1)])

\* thresholds with nulls at the ends
EndCuts == Some([cut_2 |-> Null, cut_3 |-> Some(1), cut_4 |-> Some(2), cut_5 |-> Null])

\* ContractYearlyData
Yearly(value, star_rating) == Some([value |-> value, star_rating |-> star_rating])

\* ContractBandPosition
Band(year, star_rating) == Some([year |-> year, star_rating |-> star_rating])

\* ContractMeasureRow
Row(key, lib, weight, in26, yearly, band, cuts) ==
    [measure_key |-> key, lower_is_better |-> lib, weight |-> weight, in_2026 |-> in26,
     yearly |-> yearly, latest_band |-> band, cutpoints |-> cuts]

\* The responses of GET /api/stars/measure-performance/contract/{id}, one per
\* contract: ContractPerformanceData with averages in hundredths.
\*   H5216  C01 is rated 5 although its value 2 classifies as 4 (adjusted);
\*          weights 40 and 13; D01 is discontinued.
\*   H1234  no measure has an actual rating; weights 1, 1, 2.
\*   H9999  C01 has weight 0; C02 has no cutpoints and no rating.
ContractResponse(id) ==
    CASE id = H5216 ->
           [contract_id |-> id, parent_org |-> Some(<<"A", "c", "m", "e">>),
            years |-> <<2025, 2026>>, error |-> Null,
            yearly_weighted_avgs |-> (2025 :> Some(425) @@ 2026 :> Some(475)),
            measures |-> <<
              Row("C01", FALSE, 40, TRUE,
                  (2025 :> Yearly(Some(1), Some(3)) @@ 2026 :> Yearly(Some(2), Some(5))),
                  Band(2026, 5), HiCuts),
              Row("C02", TRUE, 13, TRUE,
                  (2025 :> Null @@ 2026 :> Yearly(Some(0), Some(4))),
                  Band(2026, 4), LoCuts),
              Row("D01", FALSE, 1, FALSE,
                  (2025 :> Yearly(Some(1), Some(3)) @@ 2026 :> Null),
                  Band(2025, 3), EndCuts) >>]
      [] id = H1234 ->
           [contract_id |-> id, parent_org |-> Null,
            years |-> <<2025, 2026>>, error |-> Null,
            yearly_weighted_avgs |-> (2025 :> Null @@ 2026 :> Null),
            measures |-> <<
              Row("C01", FALSE, 1, TRUE,
                  (2025 :> Null @@ 2026 :> Yearly(Null, Null)), Null, HiCuts),
              Row("C02", TRUE, 1, TRUE,
                  (2025 :> Null @@ 2026 :> Null), Null, LoCuts),
              Row("D01", FALSE, 2, TRUE,
                  (2025 :> Null @@ 2026 :> Yearly(Some(3), Null)), Null, EndCuts) >>]
      [] OTHER ->
           [contract_id |-> id, parent_org |-> Some(<<"Z", "e", "t", "a">>),
            years |-> <<2025, 2026>>, error |-> Null,
            yearly_weighted_avgs |-> (2025 :> Null @@ 2026 :> Some(300)),
            measures |-> <<
              Row("C01", FALSE, 0, TRUE,
                  (2025 :> Null @@ 2026 :> Yearly(Some(1), Some(3))),
                  Band(2026, 3), HiCuts),
              Row("C02", TRUE, 2, TRUE,
                  (2025 :> Null @@ 2026 :> Yearly(Some(1), Null)), Null, Null) >>]

\* what queryFn returns when the response is not ok
FailedToLoad(id) ==
    [contract_id |-> id, parent_org |-> Null, years |-> <<>>, error |-> Some("Failed to load"),
     yearly_weighted_avgs |-> <<>>, measures |-> <<>>]

\* the response of GET /api/stars/measure-performance/contracts
ContractListResponse ==
    [contracts |-> << [contract_id |-> H5216, parent_org |-> Some(<<"A", "c", "m", "e">>)],
                      [contract_id |-> H1234, parent_org |-> Null],
                      [contract_id |-> S5601, parent_org |-> Some(<<"A", "c", "m", "e">>)],
                      [contract_id |-> H9999, parent_org |-> Some(<<"Z", "e", "t", "a">>)] >>]

-----------------------------------------------------------------------------
(* Contract selector *)

\* String.prototype.toLowerCase on the letters that occur
LowerChar(ch) == CASE ch = "A" -> "a" [] ch = "C" -> "c" [] ch = "H" -> "h"
                   [] ch = "S" -> "s" [] ch = "Z" -> "z" [] OTHER -> ch

toLowerCase(str) == [i \in 1..Len(str) |-> LowerChar(str[i])]

\* String.prototype.includes
includes(str, sub) ==
    \E i \in 0..(Len(str) - Len(sub)) : SubSeq(str, i + 1, i + Len(sub)) = sub

\* String.prototype.startsWith, for a one-character prefix
startsWith(str, ch) == Len(str) > 0 /\ str[1] = ch

contracts == IF contractList = Null THEN <<>> ELSE contractList[1].contracts

MatchesSearch(c) ==
    \/ includes(toLowerCase(c.contract_id), toLowerCase(contractSearch))
    \/ IF c.parent_org # Null
       THEN includes(toLowerCase(c.parent_org[1]), toLowerCase(contractSearch))
       ELSE FALSE

\* ids of filteredContracts (its first 100 entries are listed; the list is shorter)
filteredContracts ==
    {contracts[i].contract_id : i \in {j \in 1..Len(contracts) :
        /\ ~startsWith(contracts[j].contract_id, "S")
        /\ MatchesSearch(contracts[j])}}

-----------------------------------------------------------------------------
(* calcSimulatedWeightedAvg and the cells computed from it *)

\* Math.round of the rational n / d, d > 0: the nearest integer, ties upward
MathRound(n, d) == (2 * n + d) \div (2 * d)

\* the measures the loop visits (none while the query has no data)
measures == IF contractData = Null THEN <<>> ELSE contractData[1].measures

\* simVal !== undefined && simVal !== null, for simVal = simValues[key]
HasSimValue(key) == key \in DOMAIN simValues /\ simValues[key] # Null

\* m.latest_band?.star_rating, as a condition: a rating of 0 is falsy
HasActualStar(m) == m.latest_band # Null /\ m.latest_band[1].star_rating # 0

\* an override is classified with the direction flag inverted
SimStar_wrongdir(m) ==
    IF HasSimValue(m.measure_key)
    THEN Some(calcStarFromPerformance(simValues[m.measure_key][1], m.cutpoints,
                                      ~m.lower_is_better))
    ELSE IF HasActualStar(m) THEN Some(m.latest_band[1].star_rating)
    ELSE Null

\* the actual rating wins over an override
SimStar_actualfirst(m) ==
    IF HasActualStar(m) THEN Some(m.latest_band[1].star_rating)
    ELSE IF HasSimValue(m.measure_key)
    THEN Some(calcStarFromPerformance(simValues[m.measure_key][1], m.cutpoints,
                                      m.lower_is_better))
    ELSE Null

\* the rating of an override is counted from the top: 6 - rating
SimStar_inverted(m) ==
    IF HasSimValue(m.measure_key)
    THEN Some(6 - calcStarFromPerformance(simValues[m.measure_key][1], m.cutpoints,
                                          m.lower_is_better))
    ELSE IF HasActualStar(m) THEN Some(m.latest_band[1].star_rating)
    ELSE Null

\* the star the loop body assigns for measure m: number | null
SimStar(m) ==
    IF HasSimValue(m.measure_key)
    THEN Some(calcStarFromPerformance(simValues[m.measure_key][1], m.cutpoints,
                                      m.lower_is_better))
    ELSE IF HasActualStar(m) THEN Some(m.latest_band[1].star_rating)
    ELSE Null

\* a measure without a star counts as a rating of 0 with its weight
SimStep_nullaszero(acc, m) ==
    IF ~m.in_2026 THEN acc
    ELSE LET star == SimStar(m) IN
         [totalWeight    |-> acc.totalWeight + m.weight,
          weightedSum    |-> IF star # Null THEN acc.weightedSum + star[1] * m.weight
                             ELSE acc.weightedSum,
          hasAnySimValue |-> acc.hasAnySimValue \/ HasSimValue(m.measure_key)]

\* the total weight counts the rated measures instead of adding their weights
SimStep_unitweight(acc, m) ==
    IF ~m.in_2026 THEN acc
    ELSE LET star == SimStar(m) IN
         [totalWeight    |-> IF star # Null THEN acc.totalWeight + 1
                             ELSE acc.totalWeight,
          weightedSum    |-> IF star # Null THEN acc.weightedSum + star[1] * m.weight
                             ELSE acc.weightedSum,
          hasAnySimValue |-> acc.hasAnySimValue \/ HasSimValue(m.measure_key)]

\* measures outside the rating year are not skipped
SimStep_noskip(acc, m) ==
    LET star == SimStar(m) IN
    [totalWeight    |-> IF star # Null THEN acc.totalWeight + m.weight
                        ELSE acc.totalWeight,
     weightedSum    |-> IF star # Null THEN acc.weightedSum + star[1] * m.weight
                        ELSE acc.weightedSum,
     hasAnySimValue |-> acc.hasAnySimValue \/ HasSimValue(m.measure_key)]

\* one iteration of the loop over contractData.measures
SimStep(acc, m) ==
    IF ~m.in_2026 THEN acc
    ELSE LET star == SimStar(m) IN
         [totalWeight    |-> IF star # Null THEN acc.totalWeight + m.weight
                             ELSE acc.totalWeight,
          weightedSum    |-> IF star # Null THEN acc.weightedSum + star[1] * m.weight
                             ELSE acc.weightedSum,
          hasAnySimValue |-> acc.hasAnySimValue \/ HasSimValue(m.measure_key)]

RECURSIVE SimLoop(_, _)
\* the state of the loop's three variables after the first n measures
SimLoop(ms, n) ==
    IF n = 0
    THEN [totalWeight |-> 0, weightedSum |-> 0, hasAnySimValue |-> FALSE]
    ELSE SimStep(SimLoop(ms, n - 1), ms[n])

\* the flag that an override was entered is not consulted
calcSimulatedWeightedAvg_noflag ==
    IF contractData = Null THEN Null
    ELSE LET acc == SimLoop(measures, Len(measures)) IN
         IF acc.totalWeight > 0
         THEN Some(MathRound(acc.weightedSum * 100, acc.totalWeight))
         ELSE Null

\* the test totalWeight > 0 dropped: 0 / 0 is NaN, and Math.round keeps it
calcSimulatedWeightedAvg_noguard ==
    IF contractData = Null THEN Null
    ELSE LET acc == SimLoop(measures, Len(measures)) IN
         IF ~acc.hasAnySimValue THEN Null
         ELSE IF acc.totalWeight = 0 THEN <<"NaN">>
              ELSE Some(MathRound(acc.weightedSum * 100, acc.totalWeight))

\* an entry of the override map counts as an override even when it is null
calcSimulatedWeightedAvg_keyflag ==
    IF contractData = Null THEN Null
    ELSE LET acc == SimLoop(measures, Len(measures))
             flag == \E i \in 1..Len(measures) :
                        measures[i].in_2026 /\ measures[i].measure_key \in DOMAIN simValues
         IN
         IF ~flag THEN Null
         ELSE IF acc.totalWeight > 0
              THEN Some(MathRound(acc.weightedSum * 100, acc.totalWeight))
              ELSE Null

\* a pass without weight returns 0 instead of null
calcSimulatedWeightedAvg_zero ==
    IF contractData = Null THEN Null
    ELSE LET acc == SimLoop(measures, Len(measures)) IN
         IF ~acc.hasAnySimValue THEN Null
         ELSE IF acc.totalWeight > 0
              THEN Some(MathRound(acc.weightedSum * 100, acc.totalWeight))
              ELSE Some(0)

\* number | null; the number is in hundredths
calcSimulatedWeightedAvg ==
    IF contractData = Null THEN Null
    ELSE LET acc == SimLoop(measures, Len(measures)) IN
         IF ~acc.hasAnySimValue THEN Null
         ELSE IF acc.totalWeight > 0
              THEN Some(MathRound(acc.weightedSum * 100, acc.totalWeight))
              ELSE Null

simulatedAvg == calcSimulatedWeightedAvg

\* rounding to the whole star: Math.round(avg)
HalfStar_whole(avg) == MathRound(avg, 100) * 100

\* Math.round(avg * 2) / 2 of an average given in hundredths, in hundredths
HalfStar(avg) == MathRound(avg * 2, 100) * 50

\* the simulated cell of the Overall Star Rating row: null when nothing is shown
SimulatedHalfStar == IF simulatedAvg # Null THEN Some(HalfStar(simulatedAvg[1])) ELSE Null

\* the cell of the Overall Star Rating row for a year of contractData.years
ActualHalfStar(year) ==
    LET avg == contractData[1].yearly_weighted_avgs[year] IN
    IF avg # Null THEN Some(HalfStar(avg[1])) ELSE Null

\* the performance table is rendered
TableShown ==
    /\ selectedContract # <<>>
    /\ contractData # Null
    /\ contractData[1].error = Null
    /\ Len(contractData[1].measures) > 0

\* the 2027 input / output cells of a row hold more than a dash
SimCellShown(m) == m.in_2026 /\ m.cutpoints # Null

\* the override is classified with the direction flag inverted
OutputCell_wrongdir(m) ==
    IF ~(SimCellShown(m) /\ HasSimValue(m.measure_key)) THEN [dash |-> TRUE]
    ELSE LET simStar == calcStarFromPerformance(simValues[m.measure_key][1], m.cutpoints,
                                                ~m.lower_is_better)
             origStar == IF m.latest_band # Null THEN m.latest_band[1].star_rating ELSE 0
             changed == origStar # 0 /\ simStar # origStar
         IN  [dash |-> FALSE, simStar |-> simStar, changed |-> changed,
              arrow |-> IF ~changed THEN "" ELSE IF simStar > origStar THEN "up" ELSE "down",
              from |-> IF changed THEN origStar ELSE 0]

\* the arrow points the other way
OutputCell_arrowflip(m) ==
    IF ~(SimCellShown(m) /\ HasSimValue(m.measure_key)) THEN [dash |-> TRUE]
    ELSE LET simStar == calcStarFromPerformance(simValues[m.measure_key][1], m.cutpoints,
                                                m.lower_is_better)
             origStar == IF m.latest_band # Null THEN m.latest_band[1].star_rating ELSE 0
             changed == origStar # 0 /\ simStar # origStar
         IN  [dash |-> FALSE, simStar |-> simStar, changed |-> changed,
              arrow |-> IF ~changed THEN "" ELSE IF simStar > origStar THEN "down" ELSE "up",
              from |-> IF changed THEN origStar ELSE 0]

\* the 2027 output cell of the row of measure m
OutputCell(m) ==
    IF ~(SimCellShown(m) /\ HasSimValue(m.measure_key)) THEN [dash |-> TRUE]
    ELSE LET simStar == calcStarFromPerformance(simValues[m.measure_key][1], m.cutpoints,
                                                m.lower_is_better)
             origStar == IF m.latest_band # Null THEN m.latest_band[1].star_rating ELSE 0
             changed == origStar # 0 /\ simStar # origStar
         IN  [dash |-> FALSE, simStar |-> simStar, changed |-> changed,
              arrow |-> IF ~changed THEN "" ELSE IF simStar > origStar THEN "up" ELSE "down",
              from |-> IF changed THEN origStar ELSE 0]

\* measure.yearly[String(latestYear)]?.value for latestYear = Math.max(...years)
LatestValue(m) ==
    LET ys == contractData[1].years
        latestYear == CHOOSE y \in {ys[i] : i \in 1..Len(ys)} :
                          \A i \in 1..Len(ys) : ys[i] <= y
    IN  IF m.yearly[latestYear] = Null THEN Null ELSE m.yearly[latestYear][1].value

\* the Band cell of the row of measure m
BandCell(m) ==
    IF ~(m.latest_band # Null /\ m.cutpoints # Null) THEN [dash |-> TRUE]
    ELSE LET latestValue == LatestValue(m)
             starRating == m.latest_band[1].star_rating
         IN  [dash |-> FALSE,
              outsideBand |-> /\ latestValue # Null
                              /\ isOutsideBand(latestValue[1], starRating, m.cutpoints,
                                               m.lower_is_better),
              bandRange |-> getBandRange(starRating, m.cutpoints, m.lower_is_better)]

\* the render deletes the cleared entries from the override map
Render_cleans ==
    /\ simValues' = [k \in {x \in DOMAIN simValues : simValues[x] # Null} |-> simValues[k]]
    /\ ret' = [fn |-> "render", starRating |-> 0, out |-> <<>>]
    /\ UNCHANGED <<selectedContract, showContractDropdown, contractSearch, contractList,
                   contractData, args>>

\* one render of the component: it calls calcSimulatedWeightedAvg (line 1285)
\* and, for every row of the table, isOutsideBand, getBandRange and
\* calcStarFromPerformance, and shows what they return
Render ==
    /\ ret' = [fn |-> "render", starRating |-> 0,
               out |-> [simulatedAvg |-> simulatedAvg,
                        halfStar |-> SimulatedHalfStar,
                        rows |-> IF TableShown
                                 THEN [i \in 1..Len(measures) |->
                                          [band |-> BandCell(measures[i]),
                                           output |-> OutputCell(measures[i])]]
                                 ELSE <<>>]]
    /\ UNCHANGED <<selectedContract, showContractDropdown, contractSearch, simValues,
                   contractList, contractData, args>>

-----------------------------------------------------------------------------
(* The component: state after the first render, and its handlers *)

UIInit ==
    /\ selectedContract = H5216
    /\ showContractDropdown = FALSE
    /\ contractSearch = <<>>
    /\ simValues = <<>>
    /\ contractList = Null
    /\ contractData = Null

\* the contract-list query settles, on the first fetch or a refetch: the list,
\* or { contracts: [] } when the response is not ok
ContractListLoaded ==
    /\ \E ok \in BOOLEAN :
         contractList' = Some(IF ok THEN ContractListResponse ELSE [contracts |-> <<>>])
    /\ ret' = NoCall
    /\ UNCHANGED <<selectedContract, showContractDropdown, contractSearch, simValues,
                   contractData, args>>

\* the contract-performance query of the selected contract settles, on the
\* first fetch or a refetch (enabled: !!selectedContract)
ContractDataLoaded ==
    /\ selectedContract # <<>>
    /\ \E ok \in BOOLEAN :
         contractData' = Some(IF ok THEN ContractResponse(selectedContract)
                              ELSE FailedToLoad(selectedContract))
    /\ ret' = NoCall
    /\ UNCHANGED <<selectedContract, showContractDropdown, contractSearch, simValues,
                   contractList, args>>

\* every handler below changes the state, which discards what the last render
\* showed (ret) until the component renders again

\* onClick of the selector button
ToggleContractDropdown ==
    /\ showContractDropdown' = ~showContractDropdown
    /\ ret' = NoCall
    /\ UNCHANGED <<selectedContract, contractSearch, simValues, contractList,
                   contractData, args>>

\* onChange of the search box
SetContractSearch(text) ==
    /\ showContractDropdown
    /\ contractSearch' = text
    /\ ret' = NoCall
    /\ UNCHANGED <<selectedContract, showContractDropdown, simValues, contractList,
                   contractData, args>>

\* choosing another contract empties the override map
SelectContract_resets(id) ==
    /\ showContractDropdown
    /\ id \in filteredContracts
    /\ selectedContract' = id
    /\ showContractDropdown' = FALSE
    /\ contractSearch' = <<>>
    /\ contractData' = IF id = selectedContract THEN contractData ELSE Null
    /\ simValues' = IF id = selectedContract THEN simValues ELSE <<>>
    /\ ret' = NoCall
    /\ UNCHANGED <<contractList, args>>

\* onClick of a listed contract; a new query key starts without data
SelectContract(id) ==
    /\ showContractDropdown
    /\ id \in filteredContracts
    /\ selectedContract' = id
    /\ showContractDropdown' = FALSE
    /\ contractSearch' = <<>>
    /\ contractData' = IF id = selectedContract THEN contractData ELSE Null
    /\ ret' = NoCall
    /\ UNCHANGED <<simValues, contractList, args>>

\* the new map holds the edited entry only: the previous entries are not
\* spread into it
SetSimValue_replace(key, val) ==
    /\ TableShown
    /\ \E i \in 1..Len(measures) :
         measures[i].measure_key = key /\ SimCellShown(measures[i])
    /\ simValues' = [k \in {key} |-> val]
    /\ ret' = NoCall
    /\ UNCHANGED <<selectedContract, showContractDropdown, contractSearch, contractList,
                   contractData, args>>

\* onChange of the 2027 input of measure key: '' gives null, else parseFloat
SetSimValue(key, val) ==
    /\ TableShown
    /\ \E i \in 1..Len(measures) :
         measures[i].measure_key = key /\ SimCellShown(measures[i])
    /\ simValues' = [k \in DOMAIN simValues \cup {key} |->
                       IF k = key THEN val ELSE simValues[k]]
    /\ ret' = NoCall
    /\ UNCHANGED <<selectedContract, showContractDropdown, contractSearch, contractList,
                   contractData, args>>

Init == UIInit /\ args = [value |-> 0, cutpoints |-> Null, lowerIsBetter |-> FALSE] /\ ret = NoCall

Next ==
    \/ ContractListLoaded
    \/ ContractDataLoaded
    \/ ToggleContractDropdown
    \/ \E text \in SearchTexts : SetContractSearch(text)
    \/ \E id \in {H5216, H1234, H9999, S5601} : SelectContract(id)
    \/ \E key \in MeasureKeys, val \in NullableValues : SetSimValue(key, val)
    \/ Render

Spec == Init /\ [][Next]_vars

\* the engine functions alone, on every argument tuple
EngineSpecInit == UIInit /\ EngineInit

EngineNext ==
    \/ CallCalcStarFromPerformance /\ UNCHANGED uiVars
    \/ CallIsOutsideBand /\ UNCHANGED uiVars
    \/ CallGetBandRange /\ UNCHANGED uiVars

EngineSpec == EngineSpecInit /\ [][EngineNext]_vars

-----------------------------------------------------------------------------
(* Properties of the classifier, checked under EngineSpec *)

Called(fn) == ret.fn = fn

\* the cutpoint set is present and its four thresholds are non-null
FourThresholds(cutpoints) ==
    /\ cutpoints # Null
    /\ cutpoints[1].cut_2 # Null /\ cutpoints[1].cut_3 # Null
    /\ cutpoints[1].cut_4 # Null /\ cutpoints[1].cut_5 # Null

\* C1: for a higher-is-better measure with four non-null thresholds the
\* classifier returns 5 if value >= cut_5, else 4 if value >= cut_4, else 3 if
\* value >= cut_3, else 2 if value >= cut_2, else 1.
C1_HigherIsBetterChain ==
    (Called("calcStarFromPerformance") /\ ~args.lowerIsBetter
        /\ FourThresholds(args.cutpoints)) =>
    LET c == args.cutpoints[1]
        v == args.value
    IN  ret.out[1] = IF v >= c.cut_5[1] THEN 5
                     ELSE IF v >= c.cut_4[1] THEN 4
                     ELSE IF v >= c.cut_3[1] THEN 3
                     ELSE IF v >= c.cut_2[1] THEN 2
                     ELSE 1

\* a higher-is-better value between cut_3 and cut_4 was classified 3
C1_Witness ==
    /\ Called("calcStarFromPerformance") /\ ~args.lowerIsBetter
    /\ FourThresholds(args.cutpoints)
    /\ args.cutpoints[1].cut_3[1] <= args.value
    /\ args.value < args.cutpoints[1].cut_4[1]
    /\ args.cutpoints[1].cut_4[1] < args.cutpoints[1].cut_5[1]
    /\ ret.out = <<3>>

\* C2: for a lower-is-better measure with four non-null thresholds the
\* classifier returns 5 if value <= cut_5, else 4 if value <= cut_4, else 3 if
\* value <= cut_3, else 2 if value <= cut_2, else 1.
C2_LowerIsBetterChain ==
    (Called("calcStarFromPerformance") /\ args.lowerIsBetter
        /\ FourThresholds(args.cutpoints)) =>
    LET c == args.cutpoints[1]
        v == args.value
    IN  ret.out[1] = IF v <= c.cut_5[1] THEN 5
                     ELSE IF v <= c.cut_4[1] THEN 4
                     ELSE IF v <= c.cut_3[1] THEN 3
                     ELSE IF v <= c.cut_2[1] THEN 2
                     ELSE 1

\* a lower-is-better value above cut_3 and at most cut_2 was classified 2
C2_Witness ==
    /\ Called("calcStarFromPerformance") /\ args.lowerIsBetter
    /\ FourThresholds(args.cutpoints)
    /\ args.cutpoints[1].cut_5[1] < args.cutpoints[1].cut_4[1]
    /\ args.cutpoints[1].cut_4[1] < args.cutpoints[1].cut_3[1]
    /\ args.cutpoints[1].cut_3[1] < args.value
    /\ args.value <= args.cutpoints[1].cut_2[1]
    /\ ret.out = <<2>>

\* C3: boundary inclusion, both directions: a value equal to a non-null cut_5
\* is rated 5, and a value equal to a non-null cut_k (k in 2..5) is rated at
\* least k.
C3_BoundaryInclusion ==
    (Called("calcStarFromPerformance") /\ args.cutpoints # Null) =>
    LET c == args.cutpoints[1]
        v == args.value
    IN  /\ (c.cut_5 # Null /\ v = c.cut_5[1]) => ret.out[1] = 5
        /\ (c.cut_4 # Null /\ v = c.cut_4[1]) => ret.out[1] >= 4
        /\ (c.cut_3 # Null /\ v = c.cut_3[1]) => ret.out[1] >= 3
        /\ (c.cut_2 # Null /\ v = c.cut_2[1]) => ret.out[1] >= 2

\* a lower-is-better value exactly on cut_4, above cut_5, was classified 4
C3_Witness ==
    /\ Called("calcStarFromPerformance") /\ args.lowerIsBetter
    /\ FourThresholds(args.cutpoints)
    /\ args.value = args.cutpoints[1].cut_4[1]
    /\ args.value > args.cutpoints[1].cut_5[1]
    /\ ret.out = <<4>>

\* C4: monotonicity for a fixed cutpoint set: against every other value v2,
\* the rating of the classified value is ordered as the values are when the
\* measure is higher-is-better, and in the opposite order when it is
\* lower-is-better.
C4_Monotonicity ==
    Called("calcStarFromPerformance") =>
    \A v2 \in Values :
        LET r1 == ret.out[1]
            r2 == calcStarFromPerformance(v2, args.cutpoints, args.lowerIsBetter)
        IN  IF args.lowerIsBetter
            THEN /\ args.value <= v2 => r1 >= r2
                 /\ v2 <= args.value => r2 >= r1
            ELSE /\ args.value <= v2 => r1 <= r2
                 /\ v2 <= args.value => r2 <= r1

\* a higher-is-better value was classified 2 under thresholds that rate a
\* larger value 5 and are not in non-decreasing order
C4_Witness ==
    /\ Called("calcStarFromPerformance") /\ ~args.lowerIsBetter
    /\ FourThresholds(args.cutpoints)
    /\ args.cutpoints[1].cut_3[1] > args.cutpoints[1].cut_4[1]
    /\ ret.out = <<2>>
    /\ \E v2 \in Values :
         /\ v2 > args.value
         /\ calcStarFromPerformance(v2, args.cutpoints, args.lowerIsBetter) = 5

\* the cutpoints of the end-to-end scenario of the specification
ScenarioCuts == Some([cut_2 |-> Some(60), cut_3 |-> Some(70), cut_4 |-> Some(80),
                      cut_5 |-> Some(90)])

\* C9 as stated: isOutsideBand returns true exactly when the rating the
\* classifier gives the value differs from the assigned rating, for every
\* cutpoint input including an absent set (classified 3).
C9_AsStated ==
    Called("isOutsideBand") =>
    ret.out[1] = (calcStarFromPerformance(args.value, args.cutpoints, args.lowerIsBetter)
                    # ret.starRating)

\* C9 amended: for a present cutpoint set isOutsideBand returns true exactly
\* when the classifier's rating of the value differs from the assigned rating;
\* for an absent cutpoint set it returns false whatever the assigned rating;
\* value 88 assigned 5 under higher-is-better {60,70,80,90} is flagged.
C9_IsOutsideBand ==
    /\ isOutsideBand(88, 5, ScenarioCuts, FALSE)
    /\ Called("isOutsideBand") =>
         IF args.cutpoints = Null THEN ret.out[1] = FALSE
         ELSE ret.out[1] = (calcStarFromPerformance(args.value, args.cutpoints,
                                                    args.lowerIsBetter) # ret.starRating)

\* isOutsideBand was called with absent cutpoints and an assigned rating other
\* than the default 3, and returned false
C9_Witness ==
    /\ Called("isOutsideBand")
    /\ args.cutpoints = Null
    /\ ret.starRating = 5
    /\ ret.out = <<FALSE>>

\* C10: with the cutpoint set absent the classifier returns 3 for every value
\* and both directions.
C10_DefaultRating ==
    (Called("calcStarFromPerformance") /\ args.cutpoints = Null) => ret.out = <<3>>

\* a negative lower-is-better value was classified with absent cutpoints
C10_Witness ==
    /\ Called("calcStarFromPerformance")
    /\ args.cutpoints = Null
    /\ args.lowerIsBetter
    /\ args.value < 0
    /\ ret.out = <<3>>

\* C11 as stated: the default rating for missing cutpoints is observable in
\* the classifier's result: what the classifier returns for an absent cutpoint
\* set differs from everything it returns for a present one.
C11_DefaultObservable ==
    (Called("calcStarFromPerformance") /\ args.cutpoints = Null) =>
    \A v \in ArgValues, c \in {HiCuts, LoCuts, EndCuts}, lib \in BOOLEAN :
        calcStarFromPerformance(v, c, lib) # ret.out[1]

\* the comparison (cut_k, k in 2..5) is made and met: cut_k is non-null and the
\* value is on its better side
Reaches(value, cut, lowerIsBetter) ==
    cut # Null /\ (IF lowerIsBetter THEN value <= cut[1] ELSE value >= cut[1])

\* C12: a null threshold is unreachable, both directions: with cut_k null the
\* classifier never returns k, and the result is the highest tier whose
\* non-null threshold the value reaches, 1 if there is none.
C12_NullThresholdSkipped ==
    (Called("calcStarFromPerformance") /\ args.cutpoints # Null) =>
    LET c == args.cutpoints[1]
        cut == [k \in 2..5 |-> CASE k = 2 -> c.cut_2 [] k = 3 -> c.cut_3
                                 [] k = 4 -> c.cut_4 [] k = 5 -> c.cut_5]
        reached == {k \in 2..5 : Reaches(args.value, cut[k], args.lowerIsBetter)}
    IN  /\ \A k \in 2..5 : cut[k] = Null => ret.out[1] # k
        /\ \A k \in reached : ret.out[1] >= k
        /\ ret.out[1] \in reached \cup {1}

\* cut_5 is null, the negative higher-is-better value reaches cut_4 and was
\* classified 4
C12_Witness ==
    /\ Called("calcStarFromPerformance") /\ ~args.lowerIsBetter
    /\ args.cutpoints # Null
    /\ args.cutpoints[1].cut_5 = Null
    /\ args.cutpoints[1].cut_4 # Null
    /\ args.value < 0
    /\ args.value >= args.cutpoints[1].cut_4[1]
    /\ ret.out = <<4>>

\* thresholds in the order their direction requires wherever both are present
Ordered(cutpoints, lowerIsBetter) ==
    LET c == cutpoints[1]
        Le(a, b) == (a # Null /\ b # Null) =>
                        (IF lowerIsBetter THEN a[1] >= b[1] ELSE a[1] <= b[1])
    IN  /\ Le(c.cut_2, c.cut_3) /\ Le(c.cut_2, c.cut_4) /\ Le(c.cut_2, c.cut_5)
        /\ Le(c.cut_3, c.cut_4) /\ Le(c.cut_3, c.cut_5) /\ Le(c.cut_4, c.cut_5)

\* C13: the classifier is total: for every value, below or above every
\* threshold included, and every cutpoint input, unordered thresholds
\* included, it returns one rating in 1..5.
C13_TotalInRange ==
    Called("calcStarFromPerformance") =>
        /\ Len(ret.out) = 1
        /\ ret.out[1] \in 1..5

\* a value below every threshold was classified under four thresholds that
\* are not in the order of their direction
C13_Witness ==
    /\ Called("calcStarFromPerformance")
    /\ FourThresholds(args.cutpoints)
    /\ ~Ordered(args.cutpoints, args.lowerIsBetter)
    /\ \A c \in {args.cutpoints[1].cut_2, args.cutpoints[1].cut_3,
                 args.cutpoints[1].cut_4, args.cutpoints[1].cut_5} : args.value < c[1]
    /\ ret.out[1] \in 1..5

\* Reading a band text back: the value of a digit character
DigitValue(ch) == CHOOSE d \in 0..9 : Digit(d) = ch

RECURSIVE ParseDigits(_)
ParseDigits(str) ==
    IF str = <<>> THEN 0
    ELSE ParseDigits(SubSeq(str, 1, Len(str) - 1)) * 10 + DigitValue(str[Len(str)])

\* the number a rendered number denotes
ParseNumber(str) ==
    IF str[1] = "-" THEN 0 - ParseDigits(SubSeq(str, 2, Len(str))) ELSE ParseDigits(str)

\* the position of the first "%" of a band text
FirstPercent(str) == CHOOSE i \in 1..Len(str) : str[i] = "%" /\ \A j \in 1..(i - 1) : str[j] # "%"

\* v satisfies one bound <comparison><number>
SatisfiesBound(v, bound) ==
    LET n == ParseNumber(SubSeq(bound, 2, Len(bound)))
    IN  CASE bound[1] = GE  -> v >= n
          [] bound[1] = LE  -> v <= n
          [] bound[1] = ">" -> v > n
          [] bound[1] = "<" -> v < n

\* v lies in the interval a non-empty band text describes: one bound, or two
\* bounds joined by " to "
InBand(v, str) ==
    LET i == FirstPercent(str)
    IN  /\ SatisfiesBound(v, SubSeq(str, 1, i - 1))
        /\ Len(str) > i =>
              /\ SubSeq(str, i + 1, i + Len(TO)) = TO
              /\ str[Len(str)] = "%"
              /\ SatisfiesBound(v, SubSeq(str, i + Len(TO) + 1, Len(str) - 1))

\* C14: with four non-null thresholds in the order of the direction, for every
\* rating r in 1..5 and every value v: v lies in the interval that the text of
\* getBandRange(r) describes exactly when the classifier rates v as r.
C14_BandMatchesClassifier ==
    (/\ Called("getBandRange") /\ ret.starRating \in 1..5
     /\ FourThresholds(args.cutpoints)
     /\ Ordered(args.cutpoints, args.lowerIsBetter)) =>
        /\ ret.out # <<>>
        /\ \A v \in ArgValues :
              InBand(v, ret.out) <=>
              calcStarFromPerformance(v, args.cutpoints, args.lowerIsBetter) = ret.starRating

\* the band of rating 4 of a lower-is-better measure with four distinct
\* ordered thresholds, one of them negative, was rendered; it holds cut_4 and
\* not cut_5
C14_Witness ==
    /\ Called("getBandRange") /\ ret.starRating = 4 /\ args.lowerIsBetter
    /\ args.cutpoints = LoCuts
    /\ InBand(0, ret.out) /\ ~InBand(-1, ret.out) /\ ~InBand(1, ret.out)

\* the text the specification gives for a rating, from the four rendered
\* thresholds
BandText(r, cutpoints, lowerIsBetter) ==
    LET c == cutpoints[1]
        cut == [k \in 2..5 |-> CASE k = 2 -> c.cut_2 [] k = 3 -> c.cut_3
                                 [] k = 4 -> c.cut_4 [] k = 5 -> c.cut_5]
        pct == [k \in 2..5 |-> NumberToString(cut[k][1]) \o <<"%">>]
    IN  IF lowerIsBetter
        THEN CASE r = 5 -> <<LE>> \o pct[5]
               [] r \in 2..4 -> <<">">> \o pct[r + 1] \o <<" ", "t", "o", " ", LE>> \o pct[r]
               [] r = 1 -> <<">">> \o pct[2]
        ELSE CASE r = 5 -> <<GE>> \o pct[5]
               [] r \in 2..4 -> <<GE>> \o pct[r] \o <<" ", "t", "o", " ", "<">> \o pct[r + 1]
               [] r = 1 -> <<"<">> \o pct[2]

\* C15: the band text: higher-is-better 5 is ">=cut_5%", 4/3/2 are
\* ">=cut_k% to <cut_(k+1)%", 1 is "<cut_2%"; lower-is-better 5 is "<=cut_5%",
\* 4/3/2 are ">cut_(k+1)% to <=cut_k%", 1 is ">cut_2%"; higher-is-better
\* cutpoints {60,70,80,90} give ">=80% to <90%" for 4 and ">=90%" for 5.
C15_BandTextFormat ==
    /\ (/\ Called("getBandRange") /\ ret.starRating \in 1..5
        /\ FourThresholds(args.cutpoints)) =>
            ret.out = BandText(ret.starRating, args.cutpoints, args.lowerIsBetter)
    /\ Called("getBandRange") =>
          /\ getBandRange(4, ScenarioCuts, FALSE)
                = <<GE, "8", "0", "%", " ", "t", "o", " ", "<", "9", "0", "%">>
          /\ getBandRange(5, ScenarioCuts, FALSE) = <<GE, "9", "0", "%">>

\* the band of rating 3 of a higher-is-better measure with four thresholds
\* was rendered as two bounds
C15_Witness ==
    /\ Called("getBandRange") /\ ret.starRating = 3 /\ ~args.lowerIsBetter
    /\ args.cutpoints = HiCuts
    /\ ret.out = <<GE, "1", "%", " ", "t", "o", " ", "<", "2", "%">>

-----------------------------------------------------------------------------
(* Properties of the simulated pass, checked under Spec *)

\* the override entered for a measure key: a non-null entry of simValues
Override(key) == simValues[key][1]

\* positions of the measures that take part in the pass
ActiveMeasures == {i \in 1..Len(measures) : measures[i].in_2026}

\* the rating a measure has in the simulated pass according to the
\* specification: the classifier's rating of its override, else its actual
\* rating, else none
PassRating(m) ==
    IF HasSimValue(m.measure_key)
    THEN Some(calcStarFromPerformance(Override(m.measure_key), m.cutpoints, m.lower_is_better))
    ELSE IF m.latest_band # Null THEN Some(m.latest_band[1].star_rating)
    ELSE Null

RatedMeasures == {i \in ActiveMeasures : PassRating(measures[i]) # Null}

RECURSIVE Sum(_)
\* the sum of the values of a function with a finite domain
Sum(f) ==
    IF DOMAIN f = {} THEN 0
    ELSE LET i == CHOOSE x \in DOMAIN f : TRUE
         IN  f[i] + Sum([j \in DOMAIN f \ {i} |-> f[j]])

\* sum(weight_i) and sum(rating_i * weight_i) over the rated measures
RatedWeight == Sum([i \in RatedMeasures |-> measures[i].weight])

RatedSum == Sum([i \in RatedMeasures |-> PassRating(measures[i])[1] * measures[i].weight])

\* C5 as stated: the simulated half-star rating is the weighted score
\* sum(rating * weight) / sum(weight) rounded once to the nearest 0.5, ties up.
C5_HalfStarRoundedOnce ==
    SimulatedHalfStar # Null =>
        SimulatedHalfStar[1] = MathRound(2 * RatedSum, RatedWeight) * 50

\* C6: in the simulated pass every measure with an override is rated by the
\* classifier on the override with the measure's own cutpoints and direction,
\* and every measure without an override keeps its actual rating: the loop's
\* totals are the sums of those ratings and the result is their quotient.
C6_SimulatedRatings ==
    contractData # Null =>
    LET acc == SimLoop(measures, Len(measures)) IN
    /\ acc.totalWeight = RatedWeight
    /\ acc.weightedSum = RatedSum
    /\ simulatedAvg # Null => simulatedAvg[1] = MathRound(100 * RatedSum, RatedWeight)

\* a lower-is-better measure is overridden to a rating other than its actual
\* one while another measure of the same pass keeps its actual rating
C6_Witness ==
    /\ TableShown
    /\ simulatedAvg # Null
    /\ \E i, j \in ActiveMeasures :
         /\ measures[i].lower_is_better
         /\ HasSimValue(measures[i].measure_key)
         /\ measures[i].latest_band # Null
         /\ PassRating(measures[i]) # Some(measures[i].latest_band[1].star_rating)
         /\ ~HasSimValue(measures[j].measure_key)
         /\ measures[j].latest_band # Null

\* an in-2026 measure of the loaded contract has an override
SimulationRequested ==
    \E i \in ActiveMeasures : HasSimValue(measures[i].measure_key)

\* C7 as stated: with zero overrides the result is null, and with at least one
\* override on a measure of the loaded contract it is not.
C7_AsStated ==
    TableShown =>
      /\ (\A i \in 1..Len(measures) : ~HasSimValue(measures[i].measure_key))
            => simulatedAvg = Null
      /\ (\E i \in 1..Len(measures) : HasSimValue(measures[i].measure_key))
            => simulatedAvg # Null

\* C7 amended: with zero overrides the result is null; with an override on at
\* least one measure active in the rating year, and the weights of the rated
\* active measures totalling more than zero, the result is a number, also
\* when it equals the result of the actual ratings.
C7_NoSimulation ==
    /\ (\A key \in MeasureKeys : ~HasSimValue(key)) => simulatedAvg = Null
    /\ ~SimulationRequested => simulatedAvg = Null
    /\ (SimulationRequested /\ RatedWeight > 0) => simulatedAvg # Null

\* every override equals a value whose rating is the actual one, so the
\* simulation equals the actual result, and it is reported as a number
C7_Witness ==
    /\ TableShown
    /\ SimulationRequested
    /\ \A i \in ActiveMeasures :
         /\ measures[i].latest_band # Null
         /\ PassRating(measures[i]) = Some(measures[i].latest_band[1].star_rating)
    /\ simulatedAvg # Null

\* measure m has an override equal to its actual value
OverrideIsActual(m) ==
    /\ SimCellShown(m)
    /\ HasSimValue(m.measure_key)
    /\ LatestValue(m) # Null
    /\ Override(m.measure_key) = LatestValue(m)[1]

\* C8 as stated: an override equal to the measure's actual value gives delta 0:
\* the simulated rating is the assigned rating and no change is reported.
C8_AsStated ==
    TableShown =>
    \A i \in 1..Len(measures) :
        LET m == measures[i] IN
        (OverrideIsActual(m) /\ m.latest_band # Null) =>
            /\ OutputCell(m).simStar = m.latest_band[1].star_rating
            /\ ~OutputCell(m).changed

\* C8 amended: an override equal to the measure's actual value gives delta 0
\* whenever the assigned rating is the one the classifier gives the actual
\* value (isOutsideBand is false); a measure with no assigned rating reports
\* no change.
C8_NoOpOverride ==
    TableShown =>
    \A i \in 1..Len(measures) :
        LET m == measures[i] IN
        OverrideIsActual(m) =>
            IF m.latest_band = Null THEN ~OutputCell(m).changed
            ELSE ~isOutsideBand(LatestValue(m)[1], m.latest_band[1].star_rating,
                                m.cutpoints, m.lower_is_better)
                 => /\ OutputCell(m).simStar = m.latest_band[1].star_rating
                    /\ ~OutputCell(m).changed

\* an unadjusted measure is overridden with its actual value and its output
\* cell shows the assigned rating without a change mark
C8_Witness ==
    /\ TableShown
    /\ \E i \in 1..Len(measures) :
         LET m == measures[i] IN
         /\ OverrideIsActual(m)
         /\ m.latest_band # Null
         /\ ~isOutsideBand(LatestValue(m)[1], m.latest_band[1].star_rating,
                           m.cutpoints, m.lower_is_better)
         /\ OutputCell(m).simStar = m.latest_band[1].star_rating
         /\ OutputCell(m).arrow = ""

\* positions of the measures of the pass that get no rating: no override and
\* no actual rating
UnratedMeasures == ActiveMeasures \ RatedMeasures

\* a sequence without its i-th element
RemoveAt(seq, i) == SubSeq(seq, 1, i - 1) \o SubSeq(seq, i + 1, Len(seq))

\* a measure of the rating year with the given weight, no actual rating and a
\* key for which no override can be entered
UnratedRow(weight) ==
    Row("X99", FALSE, weight, TRUE, (2025 :> Null @@ 2026 :> Null), Null, HiCuts)

\* C16: a measure whose rating is null (no override, no actual rating) adds
\* nothing to the weighted sum and nothing to the total weight: the loop's
\* totals are the same without it, and adding such a measure with any weight
\* leaves the totals, and so the weighted score, unchanged.
C16_NullRatingsExcluded ==
    contractData # Null =>
    LET acc == SimLoop(measures, Len(measures)) IN
        /\ \A i \in UnratedMeasures :
              SimLoop(RemoveAt(measures, i), Len(measures) - 1) = acc
        /\ \A w \in 0..40 :
              SimLoop(Append(measures, UnratedRow(w)), Len(measures) + 1) = acc
        /\ acc.totalWeight = RatedWeight
        /\ acc.weightedSum = RatedSum

\* a simulated score is shown while a measure of positive weight has no rating
C16_Witness ==
    /\ TableShown
    /\ simulatedAvg # Null
    /\ \E i \in UnratedMeasures : measures[i].weight > 0

\* C17: when the weights of the measures with a non-null rating total zero
\* (no measure rated, or all of them of weight zero) the simulated score is
\* null; the quotient is never taken with a zero divisor.
C17_NoWeight ==
    (contractData # Null /\ RatedWeight = 0) => simulatedAvg = Null

\* an override is entered and rated, and the rated measures all have weight 0
C17_Witness ==
    /\ TableShown
    /\ SimulationRequested
    /\ RatedMeasures # {}
    /\ RatedWeight = 0
    /\ simulatedAvg = Null

\* C18: the weighted score of a simulated pass over ratings in 1..5 is between
\* 1 and 5 (100 and 500 hundredths).
C18_ScoreBounds ==
    simulatedAvg # Null =>
        /\ \A i \in RatedMeasures : PassRating(measures[i])[1] \in 1..5
        /\ 100 <= simulatedAvg[1] /\ simulatedAvg[1] <= 500

\* two rated measures of different rating and positive weight give a score
\* strictly between their ratings
C18_Witness ==
    /\ simulatedAvg # Null
    /\ \E i, j \in RatedMeasures :
         /\ measures[i].weight > 0 /\ measures[j].weight > 0
         /\ PassRating(measures[i])[1] * 100 < simulatedAvg[1]
         /\ simulatedAvg[1] < PassRating(measures[j])[1] * 100

\* the rated measures of the pass are exactly the given {rating, weight}
\* entries (pairwise different)
RatedEntriesAre(entries) ==
    /\ Cardinality(RatedMeasures) = Cardinality(entries)
    /\ {<<PassRating(measures[i])[1], measures[i].weight>> : i \in RatedMeasures} = entries

\* C19: the half-star rating of {4, weight 1} is 4.0; of {4, 1} and {5, 1} it
\* is 4.5; of {3, 1} and {4, 2} (score 3.67) it is 3.5.
C19_RoundingCases ==
    SimulatedHalfStar # Null =>
        /\ RatedEntriesAre({<<4, 1>>}) => SimulatedHalfStar = Some(400)
        /\ RatedEntriesAre({<<4, 1>>, <<5, 1>>}) => SimulatedHalfStar = Some(450)
        /\ RatedEntriesAre({<<3, 1>>, <<4, 2>>}) => SimulatedHalfStar = Some(350)

\* the pass over {3, weight 1} and {4, weight 2} was made and shows 3.5
C19_Witness ==
    /\ TableShown
    /\ RatedEntriesAre({<<3, 1>>, <<4, 2>>})
    /\ simulatedAvg = Some(367)
    /\ SimulatedHalfStar = Some(350)

\* the simulated rating the row of a measure reports: the classifier's rating
\* of the override of a measure that takes overrides
RowSimulatedRating(m) ==
    IF SimCellShown(m) /\ HasSimValue(m.measure_key)
    THEN Some(calcStarFromPerformance(Override(m.measure_key), m.cutpoints, m.lower_is_better))
    ELSE Null

\* the actual rating of the row
RowActualRating(m) ==
    IF m.latest_band # Null THEN Some(m.latest_band[1].star_rating) ELSE Null

\* simulated rating - actual rating, null if either is null
Delta(m) ==
    IF RowSimulatedRating(m) = Null \/ RowActualRating(m) = Null THEN Null
    ELSE Some(RowSimulatedRating(m)[1] - RowActualRating(m)[1])

\* C20: the per-measure delta is simulated rating - actual rating, null when
\* either is null; the row reports a change exactly when both ratings exist
\* and differ, up when the simulated rating is the greater and down when it is
\* the smaller, and names the actual rating it changed from.
C20_PerMeasureDelta ==
    TableShown =>
    \A i \in 1..Len(measures) :
        LET m == measures[i]
            cell == OutputCell(m)
        IN  /\ cell.dash <=> RowSimulatedRating(m) = Null
            /\ ~cell.dash =>
                  /\ cell.simStar = RowSimulatedRating(m)[1]
                  /\ cell.changed <=> (Delta(m) # Null /\ Delta(m)[1] # 0)
                  /\ cell.arrow = "up" <=> (Delta(m) # Null /\ Delta(m)[1] > 0)
                  /\ cell.arrow = "down" <=> (Delta(m) # Null /\ Delta(m)[1] < 0)
                  /\ cell.changed => cell.simStar - cell.from = Delta(m)[1]

\* one row reports a change up and another a change down
C20_Witness ==
    /\ TableShown
    /\ \E i, j \in 1..Len(measures) :
         /\ OutputCell(measures[i]).dash = FALSE /\ OutputCell(measures[i]).arrow = "up"
         /\ OutputCell(measures[j]).dash = FALSE /\ OutputCell(measures[j]).arrow = "down"

-----------------------------------------------------------------------------
(* Where the component calls the classifier, and what a row shows *)

\* the simulated pass tests its override against undefined only
ClassifierCalls_undefinedonly ==
    {[site |-> "calcSimulatedWeightedAvg", key |-> measures[i].measure_key,
      value |-> simValues[measures[i].measure_key]] :
        i \in {j \in 1..Len(measures) :
                  measures[j].in_2026 /\ measures[j].measure_key \in DOMAIN simValues}}
    \cup
    (IF ~TableShown THEN {}
     ELSE {[site |-> "band", key |-> measures[i].measure_key,
            value |-> LatestValue(measures[i])] :
              i \in {j \in 1..Len(measures) :
                        /\ measures[j].latest_band # Null /\ measures[j].cutpoints # Null
                        /\ LatestValue(measures[j]) # Null}}
          \cup
          {[site |-> "output", key |-> measures[i].measure_key,
            value |-> simValues[measures[i].measure_key]] :
              i \in {j \in 1..Len(measures) :
                        SimCellShown(measures[j]) /\ HasSimValue(measures[j].measure_key)}})

\* the calls of calcStarFromPerformance one render makes, each with the value
\* it passes (number | null | undefined, the last two written Null): the loop
\* of calcSimulatedWeightedAvg, isOutsideBand in the Band cell, and the 2027
\* output cell
ClassifierCalls ==
    {[site |-> "calcSimulatedWeightedAvg", key |-> measures[i].measure_key,
      value |-> simValues[measures[i].measure_key]] :
        i \in {j \in 1..Len(measures) :
                  measures[j].in_2026 /\ HasSimValue(measures[j].measure_key)}}
    \cup
    (IF ~TableShown THEN {}
     ELSE {[site |-> "band", key |-> measures[i].measure_key,
            value |-> LatestValue(measures[i])] :
              i \in {j \in 1..Len(measures) :
                        /\ measures[j].latest_band # Null /\ measures[j].cutpoints # Null
                        /\ LatestValue(measures[j]) # Null}}
          \cup
          {[site |-> "output", key |-> measures[i].measure_key,
            value |-> simValues[measures[i].measure_key]] :
              i \in {j \in 1..Len(measures) :
                        SimCellShown(measures[j]) /\ HasSimValue(measures[j].measure_key)}})

\* C21: a null value is never classified: every call of the classifier passes
\* a non-null value (an override or an observed value), and a measure with no
\* non-null override and no actual rating gets rating null in the simulated
\* pass, never 0 and never the default 3, and a dash in its Band and output
\* cells.
C21_MissingValue ==
    /\ \A call \in ClassifierCalls : call.value # Null
    /\ \A i \in 1..Len(measures) :
          LET m == measures[i] IN
          (~HasSimValue(m.measure_key) /\ m.latest_band = Null) =>
              /\ SimStar(m) = Null
              /\ TableShown => (OutputCell(m).dash /\ BandCell(m).dash)

\* in a rendered table the classifier is called, while a measure of the rating
\* year with a cleared override, no observed value and no actual rating is
\* shown
C21_Witness ==
    /\ TableShown
    /\ ClassifierCalls # {}
    /\ \E i \in ActiveMeasures :
         /\ measures[i].measure_key \in DOMAIN simValues
         /\ simValues[measures[i].measure_key] = Null
         /\ LatestValue(measures[i]) = Null
         /\ measures[i].latest_band = Null
         /\ SimStar(measures[i]) = Null

\* C22: no engine operation mutates what it is given: a render, which calls
\* calcSimulatedWeightedAvg, calcStarFromPerformance, getBandRange and
\* isOutsideBand on the measures (cutpoints, definitions) and the override map,
\* leaves the measures and the override map as they were.
C22_NoMutation ==
    [][Render => (simValues' = simValues /\ contractData' = contractData)]_vars

\* a render of a table has made all four engine calls, with an override and a
\* cleared override in the map, and shows their results
C22_Witness ==
    /\ ret.fn = "render"
    /\ TableShown
    /\ ret.out.simulatedAvg # Null
    /\ \E k \in DOMAIN simValues : simValues[k] = Null
    /\ \E i \in 1..Len(measures) :
         /\ ~ret.out.rows[i].band.dash
         /\ ~ret.out.rows[i].output.dash

\* what the table shows of the simulation: the simulated score and every
\* row's output cell
Shown ==
    [simulatedAvg |-> simulatedAvg,
     loop |-> SimLoop(measures, Len(measures)),
     output |-> [i \in 1..Len(measures) |-> OutputCell(measures[i])]]

\* C23: a null entry of the override map is treated exactly like an absent
\* key: writing null for a key that had no entry changes nothing of what the
\* simulation computes and shows; a measure with a null entry keeps its
\* actual rating; and after the only override is cleared the simulator
\* reports no simulation (null) again.
C23_NullOverrideIsAbsent ==
    [][\A key \in MeasureKeys :
          /\ (/\ key \notin DOMAIN simValues
              /\ key \in DOMAIN simValues' /\ simValues'[key] = Null) => Shown' = Shown
          /\ (key \in DOMAIN simValues' /\ simValues'[key] = Null) =>
                 /\ \A i \in 1..Len(measures') :
                       measures'[i].measure_key = key =>
                          /\ OutputCell(measures[i])'.dash
                          /\ SimStar(measures[i])' =
                                IF HasActualStar(measures[i])'
                                THEN Some(measures[i].latest_band[1].star_rating)'
                                ELSE Null
                 /\ (\A k \in DOMAIN simValues' \ {key} : simValues'[k] = Null) =>
                       simulatedAvg' = Null
      ]_vars

\* the table of a contract with actual ratings is rendered with the only
\* entry of the override map cleared, and shows no simulation
C23_Witness ==
    /\ TableShown
    /\ ret.fn = "render"
    /\ DOMAIN simValues # {}
    /\ \A k \in DOMAIN simValues : simValues[k] = Null
    /\ \E i \in ActiveMeasures :
         measures[i].measure_key \in DOMAIN simValues /\ HasActualStar(measures[i])
    /\ ret.out.simulatedAvg = Null

\* C24: selecting a different contract leaves the override map unchanged, and
\* in the simulated pass of whatever contract is loaded an override is applied
\* to the measure with its key: the measure is rated by the classifier on that
\* override with the measure's own cutpoints and direction.
C24_OverridesSurviveContractChange ==
    [][/\ selectedContract' # selectedContract => simValues' = simValues
       /\ \A i \in 1..Len(measures) :
             (measures[i].in_2026 /\ HasSimValue(measures[i].measure_key)) =>
                SimStar(measures[i]) =
                    Some(calcStarFromPerformance(Override(measures[i].measure_key),
                                                 measures[i].cutpoints,
                                                 measures[i].lower_is_better))
      ]_vars

\* contract H9999 is rendered with an override on C02, for which H9999 offers
\* no input (C02 has no cutpoints there): the override was entered under
\* another contract, and the pass rates C02 by it
C24_Witness ==
    /\ TableShown
    /\ selectedContract = H9999
    /\ ret.fn = "render"
    /\ HasSimValue("C02")
    /\ \E i \in ActiveMeasures :
         /\ measures[i].measure_key = "C02"
         /\ ~SimCellShown(measures[i])
         /\ SimStar(measures[i]) = Some(3)
    /\ ret.out.simulatedAvg = Some(300)

\* C25: an edit of one measure's override changes only that measure's entry
\* of the override map: every other entry stays what it was, and no entry
\* other than the edited one is added or removed.
C25_OverrideEditFrame ==
    [][simValues' # simValues =>
          \E key \in MeasureKeys :
             /\ DOMAIN simValues' = DOMAIN simValues \cup {key}
             /\ \A k \in DOMAIN simValues \ {key} : simValues'[k] = simValues[k]
      ]_vars

\* three measures were edited, the last edit clearing one of them, and the
\* other two hold different values
C25_Witness ==
    /\ DOMAIN simValues = MeasureKeys
    /\ simValues["C01"] # Null /\ simValues["C02"] # Null
    /\ simValues["C01"] # simValues["C02"]
    /\ simValues["D01"] = Null

\* positions of the measures outside the rating year
InactiveMeasures == {i \in 1..Len(measures) : ~measures[i].in_2026}

\* the measures of the rating year, in their order
RECURSIVE ActiveOnly(_)
ActiveOnly(ms) ==
    IF ms = <<>> THEN <<>>
    ELSE IF Head(ms).in_2026 THEN <<Head(ms)>> \o ActiveOnly(Tail(ms))
    ELSE ActiveOnly(Tail(ms))

\* C26: measures with in_2026 false are ignored by the simulated pass: the
\* loop's totals and flag are those of the loop over the other measures alone,
\* whatever rating or override the ignored measures have, and with overrides
\* on such measures only the result is null (no simulation).
C26_InactiveIgnored ==
    contractData # Null =>
        /\ SimLoop(measures, Len(measures))
              = SimLoop(ActiveOnly(measures), Len(ActiveOnly(measures)))
        /\ (\A i \in ActiveMeasures : ~HasSimValue(measures[i].measure_key)) =>
              simulatedAvg = Null

\* a rendered contract has a measure outside the rating year with an actual
\* rating and an override, no other override, and shows no simulation
C26_Witness ==
    /\ TableShown
    /\ ret.fn = "render"
    /\ \E i \in InactiveMeasures :
         /\ HasSimValue(measures[i].measure_key)
         /\ HasActualStar(measures[i])
         /\ measures[i].weight > 0
    /\ \A i \in ActiveMeasures : ~HasSimValue(measures[i].measure_key)
    /\ ret.out.simulatedAvg = Null

\* a measure of the rating year has a non-null override
ActiveOverride == \E i \in ActiveMeasures : HasSimValue(measures[i].measure_key)

\* C27: calcSimulatedWeightedAvg returns null in exactly two situations: no
\* measure of the rating year has a non-null override, or one has and the
\* weights of the rated measures of the rating year do not total more than
\* zero; the value returned and the half-star cell are the same in both.
C27_NullSituations ==
    /\ simulatedAvg = Null <=> (~ActiveOverride \/ (ActiveOverride /\ RatedWeight <= 0))
    /\ simulatedAvg = Null => SimulatedHalfStar = Null
    /\ (ActiveOverride /\ RatedWeight <= 0) => simulatedAvg = Null
    /\ ~ActiveOverride => simulatedAvg = Null

\* a render with an override on a rated measure and no weight shows the same
\* null as a render without overrides
C27_Witness ==
    /\ TableShown
    /\ ret.fn = "render"
    /\ ActiveOverride
    /\ RatedWeight <= 0
    /\ ret.out.simulatedAvg = Null
    /\ ret.out.halfStar = Null

\* the step replaces the override of key, and no other entry, by one that is
\* no worse for measure m: not lower if higher is better, not higher if lower
\* is better
OverrideImproves(key, m) ==
    /\ simValues' # simValues
    /\ HasSimValue(key)
    /\ DOMAIN simValues' = DOMAIN simValues
    /\ \A k \in DOMAIN simValues \ {key} : simValues'[k] = simValues[k]
    /\ simValues'[key] # Null
    /\ IF m.lower_is_better THEN simValues'[key][1] <= simValues[key][1]
                            ELSE simValues'[key][1] >= simValues[key][1]

\* C28: the simulation is monotone in an override: when a step changes only
\* the override of one measure of the rating year, to a value that is no worse
\* in the measure's direction, the simulated weighted average is still shown
\* and neither it nor the half-star rating the cell rounds it to is lower.
C28_MonotoneInOverride ==
    [][\A i \in ActiveMeasures :
          (/\ OverrideImproves(measures[i].measure_key, measures[i])
           /\ contractData' = contractData
           /\ simulatedAvg # Null) =>
              \A before \in {simulatedAvg}, after \in {simulatedAvg'} :
                 /\ after # Null
                 /\ after[1] >= before[1]
                 /\ HalfStar(after[1]) >= HalfStar(before[1])
      ]_vars

\* a contract with positive weights is rendered with a lower-is-better
\* measure overridden at the lowest value and a higher-is-better one at the
\* highest, and shows the highest rating
C28_Witness ==
    /\ TableShown
    /\ ret.fn = "render"
    /\ \A i \in ActiveMeasures : measures[i].weight > 0
    /\ \E i, j \in ActiveMeasures :
         /\ measures[i].lower_is_better /\ HasSimValue(measures[i].measure_key)
         /\ Override(measures[i].measure_key) = -1
         /\ ~measures[j].lower_is_better /\ HasSimValue(measures[j].measure_key)
         /\ Override(measures[j].measure_key) = MaxVal
    /\ ret.out.halfStar = Some(500)

-----------------------------------------------------------------------------
(* Cutpoint sets with null thresholds, checked under EngineSpec *)

\* the cutpoint set is present and all four thresholds are null
NoThresholds(cutpoints) ==
    /\ cutpoints # Null
    /\ cutpoints[1].cut_2 = Null /\ cutpoints[1].cut_3 = Null
    /\ cutpoints[1].cut_4 = Null /\ cutpoints[1].cut_5 = Null

\* C29: with a cutpoint set present and all four thresholds null the
\* classifier returns 1 for every value and both directions, not the default
\* 3, and isOutsideBand flags exactly the assigned ratings other than 1.
C29_NoThresholds ==
    NoThresholds(args.cutpoints) =>
        /\ Called("calcStarFromPerformance") => ret.out = <<1>>
        /\ Called("isOutsideBand") => ret.out = <<ret.starRating # 1>>
        /\ \A v \in ArgValues, lib \in BOOLEAN :
              calcStarFromPerformance(v, args.cutpoints, lib) = 1

\* an assigned rating of 3 was examined under a cutpoint set without
\* thresholds, and flagged
C29_Witness ==
    /\ Called("isOutsideBand")
    /\ NoThresholds(args.cutpoints)
    /\ ret.starRating = 3
    /\ ret.out = <<TRUE>>

\* the thresholds that bound the interval of a rating are non-null; a rating
\* outside 2..5 (written 0) is bounded like rating 1
Bounded(r, cutpoints) ==
    LET c == cutpoints[1] IN
    CASE r = 5 -> c.cut_5 # Null
      [] r = 4 -> c.cut_4 # Null /\ c.cut_5 # Null
      [] r = 3 -> c.cut_3 # Null /\ c.cut_4 # Null
      [] r = 2 -> c.cut_2 # Null /\ c.cut_3 # Null
      [] OTHER -> c.cut_2 # Null

\* C30: getBandRange returns the empty string exactly when the cutpoint set
\* is absent or a threshold bounding the rating's interval is null (cut_k and
\* cut_(k+1) for 2..4, cut_5 for 5, cut_2 for 1), also for a rating the
\* classifier assigns under those cutpoints; a rating outside 2..5 gets the
\* band of rating 1.
C30_EmptyBand ==
    Called("getBandRange") =>
        /\ ret.out = <<>> <=>
              (args.cutpoints = Null \/ ~Bounded(ret.starRating, args.cutpoints))
        /\ ret.starRating \notin 2..5 =>
              ret.out = getBandRange(1, args.cutpoints, args.lowerIsBetter)

\* the band of rating 4 is empty because cut_5 is null, while the classifier
\* rates the value 4 under the same cutpoints
C30_Witness ==
    /\ Called("getBandRange")
    /\ ret.starRating = 4
    /\ args.cutpoints # Null
    /\ args.cutpoints[1].cut_5 = Null /\ args.cutpoints[1].cut_4 # Null
    /\ calcStarFromPerformance(args.value, args.cutpoints, args.lowerIsBetter) = 4
    /\ ret.out = <<>>

=============================================================================
